---- MODULE Spec2Model ----
(***************************************************************************)
(* Model of keigo_app.py: the honorific (keigo) classifier, the            *)
(* classification pass over an uploaded table and the add-patterns action  *)
(* of the Streamlit script.                                                *)
(*                                                                         *)
(* Text is a sequence of characters.  Each character of the source is      *)
(* written as an ASCII token: hiragana in lower-case romaji ("de", "su"),  *)
(* kanji in upper case ("SHOU" for 承), punctuation by name ("maru" for    *)
(* 。, "ten" for 、), white space as "sp", "tab", "NL" and "zsp" (the      *)
(* full-width space).  A regular expression is a syntax tree that is       *)
(* matched by backtracking in the priority order of Python's re module.    *)
(***************************************************************************)
EXTENDS Integers, Sequences, FiniteSets, TLC

(***************************************************************************)
(* Sequence helpers.                                                       *)
(***************************************************************************)
RECURSIVE Concat(_)
Concat(ss) == IF ss = <<>> THEN <<>> ELSE Head(ss) \o Concat(Tail(ss))

IsPrefix(s, t) == Len(s) <= Len(t) /\ SubSeq(t, 1, Len(s)) = s

(***************************************************************************)
(* Character classes.                                                      *)
(***************************************************************************)
Whitespace == {"sp", "tab", "NL", "zsp"}

Hiragana == {"i", "u", "o", "ka", "ga", "ki", "ku", "ke", "go", "sa", "za",
             "si", "zi", "su", "se", "ta", "da", "te", "de", "na", "ni",
             "ne", "ma", "mi", "yo", "ra", "ri", "ru", "wa", "n", "xtu",
             "xya", "xyo", "ge"}

Kanji == {"RAN", "MESU", "UE", "KOSU", "KAERU", "ZON", "YASUMU", "MOUSU",
          "HAI", "KEN", "UKAGAU", "SASU", "SHOU", "CHI", "ITADAKU", "MAIRU",
          "NEGAU"}

Katakana == {"PE", "NN"}

\* [ー〜~ｗ笑]
TailMarks == {"chouon", "nami", "tilde", "zw", "WARAU"}

\* [\s　]
TailSpaces == Whitespace

\* [。．.!！?？、,：:；;…‥」』）\)\]】〉》]
TailClosers == {"maru", "zdot", "dot", "ex", "zex", "q", "zq", "ten", "comma",
                "zcolon", "colon", "zsemi", "semi", "ellipsis", "ellipsis2",
                "kagi", "kagi2", "zrparen", ")", "]", "sumi", "yama", "yama2"}

(***************************************************************************)
(* Regular-expression syntax trees.                                        *)
(***************************************************************************)
Lit(w) == [k |-> "lit", w |-> w]
Chr(cs) == [k |-> "chr", cs |-> cs]
Cat(xs) == [k |-> "cat", xs |-> xs]
Alt(xs) == [k |-> "alt", xs |-> xs]
\* greedy repetition; hi = -1 is "no upper limit"
Rep(x, lo, hi) == [k |-> "rep", x |-> x, lo |-> lo, hi |-> hi]
Star(x) == Rep(x, 0, -1)
Opt(x) == Rep(x, 0, 1)
\* capturing group number n
Grp(n, x) == [k |-> "grp", n |-> n, x |-> x]

\* a compiled pattern: its tree and its number of capturing groups
Compiled(re, groups) == [re |-> re, groups |-> groups]

(***************************************************************************)
(* Matching.  M(r, s, i, caps) is the sequence, in the order the           *)
(* backtracking matcher tries them, of the ways r matches s from position  *)
(* i: each is the position after the match and the groups captured.        *)
(***************************************************************************)
RECURSIVE M(_, _, _, _)
RECURSIVE MCat(_, _, _, _, _)
RECURSIVE MAlt(_, _, _, _, _)
RECURSIVE MRep(_, _, _, _, _, _)
RECURSIVE MRepMore(_, _, _, _, _, _, _)
RECURSIVE MCatRest(_, _, _, _, _)

M(r, s, i, caps) ==
  CASE r.k = "lit" ->
         IF i + Len(r.w) - 1 <= Len(s) /\ SubSeq(s, i, i + Len(r.w) - 1) = r.w
         THEN << [e |-> i + Len(r.w), c |-> caps] >> ELSE <<>>
    [] r.k = "chr" ->
         IF i <= Len(s) /\ s[i] \in r.cs
         THEN << [e |-> i + 1, c |-> caps] >> ELSE <<>>
    [] r.k = "cat" -> MCat(r.xs, 1, s, i, caps)
    [] r.k = "alt" -> MAlt(r.xs, 1, s, i, caps)
    [] r.k = "rep" -> MRep(r.x, r.lo, r.hi, s, i, caps)
    [] r.k = "grp" ->
         LET Capture(inner) ==
               [j \in 1..Len(inner) |->
                  [e |-> inner[j].e,
                   c |-> [inner[j].c EXCEPT
                            ![r.n] = SubSeq(s, i, inner[j].e - 1)]]]
         IN Capture(M(r.x, s, i, caps))

\* the ways xs[k..] match after each of the ways `firsts` (from index j on)
MCatRest(xs, k, s, firsts, j) ==
  IF j > Len(firsts) THEN <<>>
  ELSE MCat(xs, k, s, firsts[j].e, firsts[j].c) \o MCatRest(xs, k, s, firsts, j + 1)

MCat(xs, k, s, i, caps) ==
  IF k > Len(xs) THEN << [e |-> i, c |-> caps] >>
  ELSE MCatRest(xs, k + 1, s, M(xs[k], s, i, caps), 1)

MAlt(xs, k, s, i, caps) ==
  IF k > Len(xs) THEN <<>>
  ELSE M(xs[k], s, i, caps) \o MAlt(xs, k + 1, s, i, caps)

\* one more iteration for each way `its` of matching x once, then the rest
MRepMore(x, lo, hi, s, i, its, j) ==
  IF j > Len(its) THEN <<>>
  ELSE (IF its[j].e > i
        THEN MRep(x, lo - 1, IF hi > 0 THEN hi - 1 ELSE hi, s, its[j].e, its[j].c)
        ELSE << [e |-> i, c |-> its[j].c] >>)
       \o MRepMore(x, lo, hi, s, i, its, j + 1)

MRep(x, lo, hi, s, i, caps) ==
  (IF hi = 0 THEN <<>> ELSE MRepMore(x, lo, hi, s, i, M(x, s, i, caps), 1))
  \o (IF lo <= 0 THEN << [e |-> i, c |-> caps] >> ELSE <<>>)

NoCaps(p) == [n \in 1..p.groups |-> <<>>]

\* the first way, in priority order, that ends after `least`
RECURSIVE FirstPast(_, _, _)
FirstPast(ways, j, least) ==
  IF j > Len(ways) THEN <<>>
  ELSE IF ways[j].e > least THEN << ways[j] >>
  ELSE FirstPast(ways, j + 1, least)

\* pattern.search from position `from`: the leftmost match, <<>> if none.
\* After an empty match the next one may not be empty at the same place.
RECURSIVE Search(_, _, _, _)
Search(p, s, from, must_advance) ==
  IF from > Len(s) + 1 THEN <<>>
  ELSE LET Found(hit) ==
             IF hit # <<>>
             THEN << [st |-> from, e |-> hit[1].e, c |-> hit[1].c] >>
             ELSE Search(p, s, from + 1, FALSE)
       IN Found(FirstPast(M(p.re, s, from, NoCaps(p)), 1,
                          IF must_advance THEN from ELSE from - 1))

\* pattern.findall(s): for each non-overlapping occurrence, left to right,
\* the whole match when the pattern has no group, the group when it has one
\* (a str in both cases), and the tuple of its groups when it has several.
RECURSIVE FindallFrom(_, _, _, _)
FindallFrom(p, s, pos, must_advance) ==
  LET Item(m) ==
        IF p.groups = 0
        THEN [is_str |-> TRUE, parts |-> << SubSeq(s, m.st, m.e - 1) >>]
        ELSE IF p.groups = 1
        THEN [is_str |-> TRUE, parts |-> m.c]
        ELSE [is_str |-> FALSE, parts |-> m.c]
      Collect(found) ==
        IF found = <<>> THEN <<>>
        ELSE << Item(found[1]) >>
             \o FindallFrom(p, s, found[1].e, found[1].e = found[1].st)
  IN Collect(Search(p, s, pos, must_advance))

findall(p, s) == FindallFrom(p, s, 1, FALSE)

(***************************************************************************)
(* The built-in patterns, as compiled at the top of the script.            *)
(***************************************************************************)
RESPECT_WORDS ==
  << Lit(<<"na", "sa", "ru">>),
     Lit(<<"i", "ra", "xtu", "si", "xya", "ru">>),
     Lit(<<"o", "i", "de", "ni", "na", "ru">>),
     Lit(<<"o", "xtu", "si", "xya", "ru">>),
     Lit(<<"go", "RAN", "ni", "na", "ru">>),
     Lit(<<"MESU", "si", "UE", "ga", "ru">>),
     Lit(<<"o", "KOSU", "si", "ni", "na", "ru">>),
     Lit(<<"o", "KAERU", "ri", "ni", "na", "ru">>),
     Cat(<< Lit(<<"go", "ZON", "zi">>),
            Alt(<< Lit(<<"da">>), Lit(<<"de", "su">>) >>) >>),
     Lit(<<"ku", "da", "sa", "ru">>),
     Lit(<<"o", "YASUMU", "mi", "ni", "na", "ru">>) >>

HUMBLE_WORDS ==
  << Lit(<<"i", "ta", "su">>),
     Cat(<< Lit(<<"ZON", "zi">>),
            Alt(<< Lit(<<"ma", "su">>), Lit(<<"UE", "ge", "ru">>),
                   Lit(<<"UE", "ge", "te", "o", "ri", "ma", "su">>) >>) >>),
     Cat(<< Lit(<<"MOUSU", "si">>),
            Alt(<< Lit(<<"ma", "su">>), Lit(<<"UE", "ge", "ru">>),
                   Lit(<<"UE", "ge", "te", "o", "ri", "ma", "su">>) >>) >>),
     Cat(<< Lit(<<"HAI", "KEN">>),
            Alt(<< Lit(<<"si", "ma", "su">>),
                   Lit(<<"i", "ta", "si", "ma", "su">>) >>) >>),
     Cat(<< Lit(<<"UKAGAU">>),
            Alt(<< Lit(<<"i", "ma", "su">>), Lit(<<"i", "ma", "si", "ta">>),
                   Lit(<<"wa", "se", "te">>) >>) >>),
     Cat(<< Lit(<<"SASU", "si", "UE", "ge">>),
            Alt(<< Lit(<<"ma", "su">>), Lit(<<"ma", "si", "ta">>) >>) >>),
     Cat(<< Lit(<<"SHOU", "CHI">>),
            Alt(<< Lit(<<"si", "ma", "si", "ta">>),
                   Lit(<<"i", "ta", "si", "ma", "si", "ta">>),
                   Lit(<<"si", "te", "o", "ri", "ma", "su">>) >>) >>),
     Cat(<< Lit(<<"ITADAKU">>),
            Alt(<< Lit(<<"ki", "ma", "su">>), Lit(<<"ke", "ma", "su">>) >>) >>),
     Cat(<< Lit(<<"i", "ta", "da">>),
            Alt(<< Lit(<<"ki", "ma", "su">>), Lit(<<"ke", "ma", "su">>),
                   Lit(<<"i", "te", "o", "ri", "ma", "su">>) >>) >>),
     Cat(<< Lit(<<"MAIRU">>),
            Alt(<< Lit(<<"ri">>), Lit(<<"ri", "ma", "su">>) >>) >>) >>

TAIL ==
  Cat(<< Star(Chr(TailMarks)), Star(Chr(TailSpaces)), Star(Chr(TailClosers)) >>)

POLITE_PATTERNS ==
  << Cat(<< Alt(<< Lit(<<"de", "su">>), Lit(<<"ma", "su">>),
                   Lit(<<"de", "si", "ta">>), Lit(<<"de", "si", "xyo", "u">>),
                   Lit(<<"ma", "se", "n">>),
                   Lit(<<"de", "go", "za", "i", "ma", "su">>),
                   Cat(<< Lit(<<"go", "za", "i">>),
                          Alt(<< Lit(<<"ma", "su">>),
                                 Lit(<<"ma", "se", "n">>) >>) >>) >>),
            Opt(Alt(<< Lit(<<"ka">>), Lit(<<"ne">>), Lit(<<"yo">>) >>)),
            TAIL >>),
     Cat(<< Lit(<<"ku", "da", "sa", "i">>), TAIL >>) >>

BEAUTIFIER_PATTERNS ==
  << Cat(<< Alt(<< Lit(<<"o">>), Lit(<<"go">>) >>),
            Rep(Chr(Kanji \cup Hiragana \cup Katakana), 1, 6),
            Alt(<< Lit(<<"i", "ta", "si", "ma", "su">>),
                   Lit(<<"si", "ma", "su">>),
                   Lit(<<"ku", "da", "sa", "i">>),
                   Lit(<<"de", "su">>) >>) >>) >>

\* [re.compile(p) for p in WORDS]: none of the built-in patterns has a
\* capturing group
CompileBuiltin(words) == [j \in 1..Len(words) |-> Compiled(words[j], 0)]

(***************************************************************************)
(* Cell values.  A cell of the table is a str, a number or NaN (an empty   *)
(* cell); v is the text of a str and the digits of a number.               *)
(***************************************************************************)
Str(v) == [t |-> "str", v |-> v]
Num(v) == [t |-> "num", v |-> v]
NaN == [t |-> "nan", v |-> <<>>]

\* str(value), what .astype(str) makes of a cell
AsStr(cell) == IF cell.t = "nan" THEN <<"n", "a", "n">> ELSE cell.v

\* s.strip()
RECURSIVE LStrip(_)
LStrip(s) ==
  IF s # <<>> /\ Head(s) \in Whitespace THEN LStrip(Tail(s)) ELSE s

RECURSIVE RStrip(_)
RStrip(s) ==
  IF s # <<>> /\ s[Len(s)] \in Whitespace
  THEN RStrip(SubSeq(s, 1, Len(s) - 1)) ELSE s

Strip(s) == RStrip(LStrip(s))

\* sep.join(items)
RECURSIVE Join(_, _)
Join(sep, items) ==
  IF items = <<>> THEN <<>>
  ELSE IF Len(items) = 1 THEN items[1]
  ELSE items[1] \o sep \o Join(sep, Tail(items))

(***************************************************************************)
(* _hits and classify_keigo.                                               *)
(***************************************************************************)
RECURSIVE HitsFrom(_, _, _)
HitsFrom(patterns, j, s) ==
  IF j > Len(patterns) THEN <<>>
  ELSE LET Extend(found) ==
             IF found # <<>>
             THEN [n \in 1..Len(found) |->
                     IF found[n].is_str THEN found[n].parts[1]
                     ELSE Concat(found[n].parts)]
             ELSE <<>>
       IN Extend(findall(patterns[j], s)) \o HitsFrom(patterns, j + 1, s)

_hits(patterns, s) == HitsFrom(patterns, 1, s)

NoData ==
  [is_keigo |-> FALSE,
   respect_cnt |-> 0, humble_cnt |-> 0, polite_cnt |-> 0, beautifier_cnt |-> 0,
   respect_hits |-> <<>>, humble_hits |-> <<>>, polite_hits |-> <<>>,
   beautifier_hits |-> <<>>]

\* classify_keigo with the beautifier hits left out of is_keigo
ClassifyRun_ThreeLists(respect, humble, polite, beautifier, text) ==
  IF text.t # "str" \/ Strip(text.v) = <<>>
  THEN [res |-> NoData, applied |-> 0]
  ELSE LET Result(r_hits, h_hits, p_hits, b_hits) ==
             [is_keigo |-> r_hits # <<>> \/ h_hits # <<>> \/ p_hits # <<>>,
              respect_cnt |-> Len(r_hits), humble_cnt |-> Len(h_hits),
              polite_cnt |-> Len(p_hits), beautifier_cnt |-> Len(b_hits),
              respect_hits |-> Join(<<"ten">>, r_hits),
              humble_hits |-> Join(<<"ten">>, h_hits),
              polite_hits |-> Join(<<"ten">>, p_hits),
              beautifier_hits |-> Join(<<"ten">>, b_hits)]
       IN [res |-> Result(_hits(respect, text.v), _hits(humble, text.v),
                          _hits(polite, text.v), _hits(beautifier, text.v)),
           applied |-> Len(respect) + Len(humble) + Len(polite) + Len(beautifier)]

\* classify_keigo that tests `not text` instead of `not text.strip()`
ClassifyRun_NoStrip(respect, humble, polite, beautifier, text) ==
  IF text.t # "str" \/ text.v = <<>>
  THEN [res |-> NoData, applied |-> 0]
  ELSE LET Result(r_hits, h_hits, p_hits, b_hits) ==
             [is_keigo |-> r_hits # <<>> \/ h_hits # <<>>
                           \/ p_hits # <<>> \/ b_hits # <<>>,
              respect_cnt |-> Len(r_hits), humble_cnt |-> Len(h_hits),
              polite_cnt |-> Len(p_hits), beautifier_cnt |-> Len(b_hits),
              respect_hits |-> Join(<<"ten">>, r_hits),
              humble_hits |-> Join(<<"ten">>, h_hits),
              polite_hits |-> Join(<<"ten">>, p_hits),
              beautifier_hits |-> Join(<<"ten">>, b_hits)]
       IN [res |-> Result(_hits(respect, text.v), _hits(humble, text.v),
                          _hits(polite, text.v), _hits(beautifier, text.v)),
           applied |-> Len(respect) + Len(humble) + Len(polite) + Len(beautifier)]

\* classify_keigo on given rule lists: its result, and how many times a
\* pattern was applied to the text (the calls of pat.findall)
ClassifyRun(respect, humble, polite, beautifier, text) ==
  IF text.t # "str" \/ Strip(text.v) = <<>>
  THEN [res |-> NoData, applied |-> 0]
  ELSE LET Result(r_hits, h_hits, p_hits, b_hits) ==
             [is_keigo |-> r_hits # <<>> \/ h_hits # <<>>
                           \/ p_hits # <<>> \/ b_hits # <<>>,
              respect_cnt |-> Len(r_hits), humble_cnt |-> Len(h_hits),
              polite_cnt |-> Len(p_hits), beautifier_cnt |-> Len(b_hits),
              respect_hits |-> Join(<<"ten">>, r_hits),
              humble_hits |-> Join(<<"ten">>, h_hits),
              polite_hits |-> Join(<<"ten">>, p_hits),
              beautifier_hits |-> Join(<<"ten">>, b_hits)]
       IN [res |-> Result(_hits(respect, text.v), _hits(humble, text.v),
                          _hits(polite, text.v), _hits(beautifier, text.v)),
           applied |-> Len(respect) + Len(humble) + Len(polite) + Len(beautifier)]

Classify(respect, humble, polite, beautifier, text) ==
  ClassifyRun(respect, humble, polite, beautifier, text).res

(***************************************************************************)
(* re.compile of a line of user pattern text.  The lines of the model are  *)
(* written with literal characters, capturing groups "(" ")", the postfix  *)
(* "*" and the class "\s"; a line with an unbalanced parenthesis or with a *)
(* "*" that has nothing to repeat raises re.error.                         *)
(***************************************************************************)
ParseError == [err |-> TRUE, xs |-> <<>>, i |-> 0, g |-> 0]

RECURSIVE ParseSeq(_, _, _, _)
ParseSeq(toks, i, acc, g) ==
  IF i > Len(toks) \/ toks[i] = ")"
  THEN [err |-> FALSE, xs |-> acc, i |-> i, g |-> g]
  ELSE IF toks[i] = "*"
  THEN IF acc = <<>> \/ acc[Len(acc)].k = "rep"
       THEN ParseError
       ELSE ParseSeq(toks, i + 1,
                     [acc EXCEPT ![Len(acc)] = Star(acc[Len(acc)])], g)
  ELSE IF toks[i] = "("
  THEN LET Close(inner) ==
             IF inner.err \/ inner.i > Len(toks)
             THEN ParseError
             ELSE ParseSeq(toks, inner.i + 1,
                           Append(acc, Grp(g + 1, Cat(inner.xs))), inner.g)
       IN Close(ParseSeq(toks, i + 1, <<>>, g + 1))
  ELSE IF toks[i] = "\\s"
  THEN ParseSeq(toks, i + 1, Append(acc, Chr(Whitespace)), g)
  ELSE ParseSeq(toks, i + 1, Append(acc, Lit(<< toks[i] >>)), g)

\* [ok, p]: whether the line compiles, and the compiled pattern
re_compile(line) ==
  LET Whole(r) ==
        IF r.err \/ r.i <= Len(line)
        THEN [ok |-> FALSE, p |-> Compiled(Cat(<<>>), 0)]
        ELSE [ok |-> TRUE, p |-> Compiled(Cat(r.xs), r.g)]
  IN Whole(ParseSeq(line, 1, <<>>, 0))

\* s.splitlines()
RECURSIVE SplitFrom(_, _, _)
SplitFrom(s, i, cur) ==
  IF i > Len(s) THEN (IF cur = <<>> THEN <<>> ELSE << cur >>)
  ELSE IF s[i] = "NL" THEN << cur >> \o SplitFrom(s, i + 1, <<>>)
  ELSE SplitFrom(s, i + 1, Append(cur, s[i]))

splitlines(s) == SplitFrom(s, 1, <<>>)

IsNonBlank(l) == Strip(l) # <<>>

\* [l.strip() for l in s.splitlines() if l.strip()]
_lines(s) ==
  LET Stripped(kept) == [j \in 1..Len(kept) |-> Strip(kept[j])]
  IN Stripped(SelectSeq(splitlines(s), IsNonBlank))

\* [re.compile(p) for p in lines]: the list, or the re.error of the first
\* line that does not compile
CompileAll(lines) ==
  LET All(cs) == [ok |-> \A j \in 1..Len(cs) : cs[j].ok,
                  ps |-> [j \in 1..Len(cs) |-> cs[j].p]]
  IN All([j \in 1..Len(lines) |-> re_compile(lines[j])])

(***************************************************************************)
(* The table.  A DataFrame is the sequence of its rows, each with its      *)
(* index label and its cells in column order; the sheet is read with the   *)
(* labels 0, 1, 2, ...  The sheets of the model have two columns, 1 and 2. *)
(***************************************************************************)
Columns == {1, 2}

MaxRows == 2

Frame(rows) == [j \in 1..Len(rows) |-> [idx |-> j - 1, cols |-> rows[j]]]

\* "（使わない）": no filter column
NoFilterCol == 0

\* "（未選択）": no filter value
UNSELECTED == << "(unselected)" >>

\* filter_val = None
NoFilterVal == <<>>

\* the values offered for the filter column:
\* ["（未選択）"] + sorted(str(v) for v in df[filter_col].dropna().astype(str).unique())
FilterChoices(df, filter_col) ==
  IF filter_col = NoFilterCol THEN { NoFilterVal }
  ELSE { UNSELECTED } \cup
       { AsStr(df[j].cols[filter_col]) :
           j \in { n \in 1..Len(df) : df[n].cols[filter_col].t # "nan" } }

\* work_df[work_df[filter_col].astype(str) == filter_val]: the rows keep
\* their index labels
FilterRows(df, filter_col, filter_val) ==
  LET Keep(row) == AsStr(row.cols[filter_col]) = filter_val
  IN SelectSeq(df, Keep)

\* df.reset_index(drop=True)
ResetIndex(df) == [j \in 1..Len(df) |-> [idx |-> j - 1, cols |-> df[j].cols]]

\* the classification in which each call uses up the first polite rule
ApplyClassify_Consuming(respect, humble, polite, beautifier, work, text_col) ==
  [j \in 1..Len(work) |->
     [idx |-> work[j].idx,
      res |-> Classify(respect, humble, SubSeq(polite, j, Len(polite)),
                       beautifier, work[j].cols[text_col])]]

\* work_df[text_col].apply(classify_keigo).apply(pd.Series): one result per
\* row, under the row's index label
ApplyClassify(respect, humble, polite, beautifier, work, text_col) ==
  [j \in 1..Len(work) |->
     [idx |-> work[j].idx,
      res |-> Classify(respect, humble, polite, beautifier,
                       work[j].cols[text_col])]]

Labels(frame) == { frame[j].idx : j \in 1..Len(frame) }

NaNRow == [c \in Columns |-> NaN]

\* pd.concat([left, right], axis=1): the rows are joined on their index
\* labels.  The labels of the result are those of left followed by the
\* labels only right has; a side that lacks a label contributes NaN.
ConcatColumns(left, right) ==
  LET OnlyRight(r) == r.idx \notin Labels(left)
      extra == SelectSeq(right, OnlyRight)
      Res(label) ==
        IF label \in Labels(right)
        THEN << right[CHOOSE j \in 1..Len(right) : right[j].idx = label].res >>
        ELSE <<>>
  IN [j \in 1..Len(left) |->
        [idx |-> left[j].idx, cols |-> left[j].cols, res |-> Res(left[j].idx)]]
     \o [j \in 1..Len(extra) |->
        [idx |-> extra[j].idx, cols |-> NaNRow, res |-> << extra[j].res >>]]

\* out_all[out_all["is_keigo"]]: a KeyError when there is no such column
\* (nothing was classified), a ValueError when the mask holds NaN
IsKeigoRow(row) == row.res # <<>> /\ row.res[1].is_keigo

\* the keigo-only view without the mask
BoolIndex_NoMask(all, classified) ==
  IF classified = <<>> THEN [raised |-> TRUE, rows |-> <<>>]
  ELSE IF \E j \in 1..Len(all) : all[j].res = <<>>
  THEN [raised |-> TRUE, rows |-> <<>>]
  ELSE [raised |-> FALSE, rows |-> all]

BoolIndex(all, classified) ==
  IF classified = <<>> THEN [raised |-> TRUE, rows |-> <<>>]
  ELSE IF \E j \in 1..Len(all) : all[j].res = <<>>
  THEN [raised |-> TRUE, rows |-> <<>>]
  ELSE [raised |-> FALSE, rows |-> SelectSeq(all, IsKeigoRow)]

\* the body of `if st.button("敬語判定を実行")`
ClassificationPass(respect, humble, polite, beautifier, df, text_col, filter_col, filter_val) ==
  LET Done(work, res, all, keigo) ==
        [work_df |-> work, results |-> res, out_all |-> all,
         out_keigo |-> keigo.rows,
         message |-> IF keigo.raised THEN "pass_exception" ELSE "pass_success"]
      \* line 132
      Select(work, res, all) == Done(work, res, all, BoolIndex(all, res))
      \* line 131
      Joined(work, res) == Select(work, res, ConcatColumns(ResetIndex(work), res))
      \* lines 125-130
      Judge(work) ==
        IF text_col \notin Columns
        THEN [work_df |-> work, results |-> <<>>, out_all |-> <<>>,
              out_keigo |-> <<>>, message |-> "column_error"]
        ELSE Joined(work, ApplyClassify(respect, humble, polite, beautifier,
                                       work, text_col))
  \* lines 119-123
  IN Judge(IF /\ filter_col # NoFilterCol
              /\ filter_val # <<>>
              /\ filter_val # UNSELECTED
           THEN FilterRows(df, filter_col, filter_val)
           ELSE df)

\* the compiled patterns of the lines before the first that does not compile
RECURSIVE CompiledUntilError(_)
CompiledUntilError(lines) ==
  IF lines = <<>> \/ ~re_compile(Head(lines)).ok THEN <<>>
  ELSE << re_compile(Head(lines)).p >> \o CompiledUntilError(Tail(lines))

\* add-patterns that appends each line as soon as it is compiled
ApplyExtra_LineByLine(respect, humble, polite, beautifier, extra_r, extra_h, extra_p, extra_b) ==
  LET cr == CompileAll(_lines(extra_r))
      ch == CompileAll(_lines(extra_h))
      cp == CompileAll(_lines(extra_p))
      cb == CompileAll(_lines(extra_b))
      ar == respect \o CompiledUntilError(_lines(extra_r))
      ah == humble \o CompiledUntilError(_lines(extra_h))
      ap == polite \o CompiledUntilError(_lines(extra_p))
      ab == beautifier \o CompiledUntilError(_lines(extra_b))
  IN IF ~cr.ok
     THEN [r |-> ar, h |-> humble, p |-> polite, b |-> beautifier,
           message |-> "apply_error"]
     ELSE IF ~ch.ok
     THEN [r |-> ar, h |-> ah, p |-> polite, b |-> beautifier,
           message |-> "apply_error"]
     ELSE IF ~cp.ok
     THEN [r |-> ar, h |-> ah, p |-> ap, b |-> beautifier,
           message |-> "apply_error"]
     ELSE IF ~cb.ok
     THEN [r |-> ar, h |-> ah, p |-> ap, b |-> ab, message |-> "apply_error"]
     ELSE [r |-> ar, h |-> ah, p |-> ap, b |-> ab, message |-> "apply_success"]

\* add-patterns that puts the new patterns in front of the list
ApplyExtra_Prepend(respect, humble, polite, beautifier, extra_r, extra_h, extra_p, extra_b) ==
  LET Extend(cr, ch, cp, cb) ==
        IF ~cr.ok
        THEN [r |-> respect, h |-> humble, p |-> polite, b |-> beautifier,
              message |-> "apply_error"]
        ELSE IF ~ch.ok
        THEN [r |-> cr.ps \o respect, h |-> humble, p |-> polite, b |-> beautifier,
              message |-> "apply_error"]
        ELSE IF ~cp.ok
        THEN [r |-> cr.ps \o respect, h |-> ch.ps \o humble, p |-> polite,
              b |-> beautifier, message |-> "apply_error"]
        ELSE IF ~cb.ok
        THEN [r |-> cr.ps \o respect, h |-> ch.ps \o humble, p |-> cp.ps \o polite,
              b |-> beautifier, message |-> "apply_error"]
        ELSE [r |-> cr.ps \o respect, h |-> ch.ps \o humble, p |-> cp.ps \o polite,
              b |-> cb.ps \o beautifier, message |-> "apply_success"]
  IN Extend(CompileAll(_lines(extra_r)), CompileAll(_lines(extra_h)),
            CompileAll(_lines(extra_p)), CompileAll(_lines(extra_b)))

\* the body of `if st.button("追加パターンを適用")`
ApplyExtra(respect, humble, polite, beautifier, extra_r, extra_h, extra_p, extra_b) ==
  LET Extend(cr, ch, cp, cb) ==
        IF ~cr.ok
        THEN [r |-> respect, h |-> humble, p |-> polite, b |-> beautifier,
              message |-> "apply_error"]
        ELSE IF ~ch.ok
        THEN [r |-> respect \o cr.ps, h |-> humble, p |-> polite, b |-> beautifier,
              message |-> "apply_error"]
        ELSE IF ~cp.ok
        THEN [r |-> respect \o cr.ps, h |-> humble \o ch.ps, p |-> polite,
              b |-> beautifier, message |-> "apply_error"]
        ELSE IF ~cb.ok
        THEN [r |-> respect \o cr.ps, h |-> humble \o ch.ps, p |-> polite \o cp.ps,
              b |-> beautifier, message |-> "apply_error"]
        ELSE [r |-> respect \o cr.ps, h |-> humble \o ch.ps, p |-> polite \o cp.ps,
              b |-> beautifier \o cb.ps, message |-> "apply_success"]
  IN Extend(CompileAll(_lines(extra_r)), CompileAll(_lines(extra_h)),
            CompileAll(_lines(extra_p)), CompileAll(_lines(extra_b)))

(***************************************************************************)
(* Inputs.                                                                 *)
(***************************************************************************)
\* です。
T_desu == <<"de", "su", "maru">>
\* お願いします
T_onegai == <<"o", "NEGAU", "i", "si", "ma", "su">>
\* いいね
T_iine == <<"i", "i", "ne">>
\* a space and a full-width space
T_blank == <<"sp", "zsp">>

\* the values classify_keigo is called with
Texts == { Str(T_desu), Str(T_onegai), Str(T_iine), Str(T_blank), Str(<<>>),
           NaN }

\* the cells of the two columns of an uploaded sheet
SpeakerCells == { Str(<<"A">>), Num(<<"1">>), NaN }
TextCells == { Str(T_desu), Str(T_iine), Str(T_blank), NaN }

Rows == { <<a, b>> : a \in SpeakerCells, b \in TextCells }

Tables == UNION { [1..n -> Rows] : n \in 0..MaxRows }

\* what the user types into one of the four text areas
E_none == <<>>
\* ね
E_ne == <<"ne">>
\* two lines and a blank one: \s with spaces around it, and (で)(す)
E_two == <<"sp", "\\s", "zsp", "NL", "NL", "(", "de", ")", "(", "su", ")">>
\* ね*
E_star == <<"ne", "*">>
\* an unbalanced parenthesis
E_bad == <<"(">>
\* a line that compiles, then one that does not
E_mixed == <<"ne", "NL", "*">>

AreaTexts == { E_none, E_ne, E_two, E_star, E_bad, E_mixed }

(***************************************************************************)
(* State.  Streamlit runs the script from its first line at every          *)
(* interaction: pc is "idle" between two runs and "ui" while a run is past *)
(* the module-level definitions and at the widgets.  The other variables   *)
(* are the globals of the run.                                             *)
(***************************************************************************)
VARIABLES pc, RESPECT_RE, HUMBLE_RE, POLITE_RE, BEAUTIFIER_RE,
          df, text_col, filter_col, filter_val,
          work_df, results, out_all, out_keigo,
          extra_respect, extra_humble, extra_polite, extra_beauty,
          message, last_call

rules == <<RESPECT_RE, HUMBLE_RE, POLITE_RE, BEAUTIFIER_RE>>
passVars == <<df, text_col, filter_col, filter_val,
              work_df, results, out_all, out_keigo>>
extraVars == <<extra_respect, extra_humble, extra_polite, extra_beauty>>
vars == <<pc, rules, passVars, extraVars, message, last_call>>

\* classify_keigo on the rule lists as they are
classify_keigo(text) ==
  Classify(RESPECT_RE, HUMBLE_RE, POLITE_RE, BEAUTIFIER_RE, text)

\* lines 37-40
BuildRules ==
  /\ RESPECT_RE' = CompileBuiltin(RESPECT_WORDS)
  /\ HUMBLE_RE' = CompileBuiltin(HUMBLE_WORDS)
  /\ POLITE_RE' = CompileBuiltin(POLITE_PATTERNS)
  /\ BEAUTIFIER_RE' = CompileBuiltin(BEAUTIFIER_PATTERNS)

NoPass ==
  /\ df = <<>> /\ text_col = 0 /\ filter_col = NoFilterCol
  /\ filter_val = NoFilterVal
  /\ work_df = <<>> /\ results = <<>> /\ out_all = <<>> /\ out_keigo = <<>>

NoExtra ==
  /\ extra_respect = <<>> /\ extra_humble = <<>>
  /\ extra_polite = <<>> /\ extra_beauty = <<>>

Init ==
  /\ pc = "idle"
  /\ RESPECT_RE = CompileBuiltin(RESPECT_WORDS)
  /\ HUMBLE_RE = CompileBuiltin(HUMBLE_WORDS)
  /\ POLITE_RE = CompileBuiltin(POLITE_PATTERNS)
  /\ BEAUTIFIER_RE = CompileBuiltin(BEAUTIFIER_PATTERNS)
  /\ NoPass
  /\ NoExtra
  /\ message = "none"
  /\ last_call = <<>>

\* An interaction starts a run: the script is executed from the top in a
\* fresh namespace, so the rule lists are built again from the built-in
\* patterns and nothing of the run before is left.
ScriptStart ==
  /\ pc = "idle"
  /\ pc' = "ui"
  /\ BuildRules
  /\ df' = <<>> /\ text_col' = 0 /\ filter_col' = NoFilterCol
  /\ filter_val' = NoFilterVal
  /\ work_df' = <<>> /\ results' = <<>> /\ out_all' = <<>> /\ out_keigo' = <<>>
  /\ extra_respect' = <<>> /\ extra_humble' = <<>>
  /\ extra_polite' = <<>> /\ extra_beauty' = <<>>
  /\ message' = "none"
  /\ UNCHANGED last_call

\* a run in which neither button was pressed
NoButton ==
  /\ pc = "ui"
  /\ pc' = "idle"
  /\ UNCHANGED <<rules, passVars, extraVars, message, last_call>>

\* a run in which "敬語判定を実行" was pressed, with the sheet and the
\* selections of the widgets
RunPass(sheet, tcol, fcol, fval) ==
  /\ pc = "ui"
  /\ \E out \in { ClassificationPass(RESPECT_RE, HUMBLE_RE, POLITE_RE,
                                      BEAUTIFIER_RE, sheet, tcol, fcol, fval) } :
        /\ df' = sheet
        /\ text_col' = tcol
        /\ filter_col' = fcol
        /\ filter_val' = fval
        /\ work_df' = out.work_df
        /\ results' = out.results
        /\ out_all' = out.out_all
        /\ out_keigo' = out.out_keigo
        /\ message' = out.message
  /\ pc' = "idle"
  /\ UNCHANGED <<rules, extraVars, last_call>>

\* a run in which "追加パターンを適用" was pressed, with the four text areas
ApplyPatterns(er, eh, ep, eb) ==
  /\ pc = "ui"
  /\ \E out \in { ApplyExtra(RESPECT_RE, HUMBLE_RE, POLITE_RE, BEAUTIFIER_RE,
                              er, eh, ep, eb) } :
        /\ RESPECT_RE' = out.r
        /\ HUMBLE_RE' = out.h
        /\ POLITE_RE' = out.p
        /\ BEAUTIFIER_RE' = out.b
        /\ message' = out.message
  /\ extra_respect' = er
  /\ extra_humble' = eh
  /\ extra_polite' = ep
  /\ extra_beauty' = eb
  /\ pc' = "idle"
  /\ UNCHANGED <<passVars, last_call>>

Next ==
  \/ ScriptStart
  \/ NoButton
  \/ \E rows \in Tables, tcol \in Columns, fcol \in {NoFilterCol} \cup Columns :
       \E fval \in FilterChoices(Frame(rows), fcol) :
         RunPass(Frame(rows), tcol, fcol, fval)
  \/ \E er \in AreaTexts, eh \in AreaTexts, ep \in AreaTexts, eb \in AreaTexts :
       ApplyPatterns(er, eh, ep, eb)

Spec == Init /\ [][Next]_vars

(***************************************************************************)
(* The functions of the module driven directly: classify_keigo is called   *)
(* on a value, and the add-patterns body extends the rule lists, which     *)
(* stay as they are from one call to the next.  last_call is the value,    *)
(* the result and the number of pattern applications of the latest call.   *)
(***************************************************************************)
MaxAdded == 2

Added ==
  (Len(RESPECT_RE) - Len(RESPECT_WORDS)) + (Len(HUMBLE_RE) - Len(HUMBLE_WORDS))
  + (Len(POLITE_RE) - Len(POLITE_PATTERNS))
  + (Len(BEAUTIFIER_RE) - Len(BEAUTIFIER_PATTERNS))

FnClassify(t) ==
  /\ \E run \in { ClassifyRun(RESPECT_RE, HUMBLE_RE, POLITE_RE,
                               BEAUTIFIER_RE, t) } :
       last_call' = << [text |-> t, res |-> run.res, applied |-> run.applied] >>
  /\ UNCHANGED <<pc, rules, passVars, extraVars, message>>

FnApply(er, eh, ep, eb) ==
  /\ Added < MaxAdded
  /\ \E out \in { ApplyExtra(RESPECT_RE, HUMBLE_RE, POLITE_RE, BEAUTIFIER_RE,
                              er, eh, ep, eb) } :
        /\ RESPECT_RE' = out.r
        /\ HUMBLE_RE' = out.h
        /\ POLITE_RE' = out.p
        /\ BEAUTIFIER_RE' = out.b
        /\ message' = out.message
  /\ extra_respect' = er
  /\ extra_humble' = eh
  /\ extra_polite' = ep
  /\ extra_beauty' = eb
  /\ UNCHANGED <<pc, passVars, last_call>>

\* the batches with text in one text area
OneArea ==
  { b \in [1..4 -> { E_none, E_star, E_two, E_bad }] :
      Cardinality({ c \in 1..4 : b[c] # <<>> }) <= 1 }

NextFn ==
  \/ \E t \in Texts : FnClassify(t)
  \/ \E b \in OneArea : FnApply(b[1], b[2], b[3], b[4])

SpecFn == Init /\ [][NextFn]_vars

(***************************************************************************)
(* Vocabulary of the properties.                                           *)
(***************************************************************************)
Categories == 1..4

RulesOf(c) ==
  CASE c = 1 -> RESPECT_RE [] c = 2 -> HUMBLE_RE
    [] c = 3 -> POLITE_RE [] c = 4 -> BEAUTIFIER_RE

AreaOf(c) ==
  CASE c = 1 -> extra_respect [] c = 2 -> extra_humble
    [] c = 3 -> extra_polite [] c = 4 -> extra_beauty

CntOf(res, c) ==
  CASE c = 1 -> res.respect_cnt [] c = 2 -> res.humble_cnt
    [] c = 3 -> res.polite_cnt [] c = 4 -> res.beautifier_cnt

HitsOf(res, c) ==
  CASE c = 1 -> res.respect_hits [] c = 2 -> res.humble_hits
    [] c = 3 -> res.polite_hits [] c = 4 -> res.beautifier_hits

IsBlankText(text) == \A j \in 1..Len(text.v) : text.v[j] \in Whitespace

PassRan == pc = "idle" /\ message \in {"pass_success", "pass_exception"}

FilterGiven ==
  filter_col # NoFilterCol /\ filter_val # NoFilterVal /\ filter_val # UNSELECTED

\* a step of the classification pass, of the add-patterns action
IsPassStep ==
  pc = "ui" /\ pc' = "idle" /\ message' \in {"pass_success", "pass_exception"}
IsApplyStep ==
  pc = "ui" /\ pc' = "idle" /\ message' \in {"apply_success", "apply_error"}

HasBadLine(area) ==
  \E j \in 1..Len(_lines(area)) : ~re_compile(_lines(area)[j]).ok

\* the compiled patterns of the lines of a text area that compile, in order
GoodPatterns(area) ==
  LET Good(l) == re_compile(l).ok
      good == SelectSeq(_lines(area), Good)
  IN [j \in 1..Len(good) |-> re_compile(good[j]).p]

\* the columns of a frame without the index labels
Content(frame) ==
  [j \in 1..Len(frame) |-> [cols |-> frame[j].cols, res |-> frame[j].res]]

(***************************************************************************)
(* C1: whatever the value classified and whatever the rule lists (the      *)
(* built-in rules and any additions), the result of classify_keigo has     *)
(* is_keigo true exactly when one of its four counts is positive.          *)
(***************************************************************************)
C1_IsKeigoIffSomeCount ==
  \A j \in 1..Len(last_call) :
    LET r == last_call[j].res
    IN r.is_keigo <=> (r.respect_cnt > 0 \/ r.humble_cnt > 0
                       \/ r.polite_cnt > 0 \/ r.beautifier_cnt > 0)

\* いいね is keigo once ね* has been added, and only by that rule
C1_Witness ==
  /\ last_call # <<>>
  /\ last_call[1].text = Str(T_iine)
  /\ last_call[1].res.is_keigo
  /\ Added > 0

(***************************************************************************)
(* C5: classify_keigo of an empty string, of a string of white space or of *)
(* a value that is no string is the no-data result (is_keigo false, the    *)
(* four counts 0, the four hit strings empty), whatever the rule lists,    *)
(* and no rule is applied to the value.                                    *)
(***************************************************************************)
C5_BlankIsNoData ==
  \A j \in 1..Len(last_call) :
    LET t == last_call[j].text
        r == last_call[j].res
    IN (t.t # "str" \/ IsBlankText(t)) =>
         /\ r.is_keigo = FALSE
         /\ \A c \in Categories : CntOf(r, c) = 0 /\ HitsOf(r, c) = <<>>
         /\ last_call[j].applied = 0

\* a white-space string classified while a rule that matches white space
\* is in a list
C5_Witness ==
  /\ last_call # <<>>
  /\ last_call[1].text = Str(T_blank)
  /\ \E c \in Categories : \E j \in 1..Len(RulesOf(c)) :
       findall(RulesOf(c)[j], T_blank) # <<>>

\* the sheet that holds only the rows the filter keeps
PreFiltered ==
  LET Keep(row) == AsStr(row.cols[filter_col]) = filter_val
      kept == SelectSeq(df, Keep)
  IN Frame([j \in 1..Len(kept) |-> kept[j].cols])

(***************************************************************************)
(* C2: a pass run with a filter (filter_col, filter_val) gives the same    *)
(* all-rows and keigo-only outputs as a pass run without a filter on the   *)
(* sheet that holds only the rows whose filter_col value, as text, equals  *)
(* filter_val.                                                             *)
(***************************************************************************)
C2_FilterThenClassify ==
  (PassRan /\ FilterGiven) =>
    LET ref == ClassificationPass(RESPECT_RE, HUMBLE_RE, POLITE_RE, BEAUTIFIER_RE,
                                  PreFiltered, text_col, NoFilterCol, NoFilterVal)
    IN /\ message = ref.message
       /\ Content(out_all) = Content(ref.out_all)
       /\ Content(out_keigo) = Content(ref.out_keigo)

(***************************************************************************)
(* C3: after a pass, with or without a filter, the all-rows output has one *)
(* row for each classified row (each row of work_df), at the same          *)
(* position, made of that row's cells in their order followed by the       *)
(* classification of that row's text.                                      *)
(***************************************************************************)
C3_OneOutputRowPerRow ==
  PassRan =>
    /\ Len(out_all) = Len(work_df)
    /\ \A j \in 1..Len(out_all) :
         j <= Len(work_df) =>
           /\ out_all[j].cols = work_df[j].cols
           /\ out_all[j].res = << classify_keigo(work_df[j].cols[text_col]) >>

(***************************************************************************)
(* C4: the keigo-only output of a pass is the sub-sequence of the all-rows *)
(* output made of the rows whose is_keigo is true, in the same order,      *)
(* each once.                                                              *)
(***************************************************************************)
C4_KeigoOnlyIsSubsequence ==
  (pc = "idle" /\ message = "pass_success") =>
    LET keigo == { j \in 1..Len(out_all) : out_all[j].res[1].is_keigo }
        Nth(k) == CHOOSE j \in keigo : Cardinality({ i \in keigo : i < j }) = k - 1
    IN /\ Len(out_keigo) = Cardinality(keigo)
       /\ \A k \in 1..Len(out_keigo) : out_keigo[k] = out_all[Nth(k)]

\* a pass whose first row is not keigo and whose second row is
C4_Witness ==
  /\ pc = "idle" /\ message = "pass_success"
  /\ Len(out_all) = 2
  /\ ~out_all[1].res[1].is_keigo
  /\ out_all[2].res[1].is_keigo
  /\ out_keigo = << out_all[2] >>

(***************************************************************************)
(* C6: when the text submitted for a category through the add-patterns     *)
(* action has a line that does not compile, an error is reported and the   *)
(* rule list of that category is what it was before the action.            *)
(***************************************************************************)
C6_BadPatternLeavesCategory ==
  [][IsApplyStep =>
       \A c \in Categories :
         HasBadLine(AreaOf(c)') =>
           message' = "apply_error" /\ RulesOf(c)' = RulesOf(c)]_vars

\* the respect area held a line that compiles and one that does not
C6_Witness ==
  /\ pc = "idle" /\ message = "apply_error"
  /\ extra_respect = E_mixed
  /\ RESPECT_RE = CompileBuiltin(RESPECT_WORDS)

(***************************************************************************)
(* C7: a pattern that was added stays in its category for the rest of the  *)
(* session: no interaction removes a rule or restores the built-in list    *)
(* (each rule list only ever grows at its end).                            *)
(***************************************************************************)
C7_RulesAreNeverRemoved ==
  [][\A c \in Categories : IsPrefix(RulesOf(c), RulesOf(c)')]_vars

(***************************************************************************)
(* C8: in a submitted batch every line that compiles is appended to its    *)
(* category, whether or not another line of the batch fails to compile.    *)
(***************************************************************************)
C8_EachLineIndependent ==
  [][IsApplyStep =>
       \A c \in Categories :
         RulesOf(c)' = RulesOf(c) \o GoodPatterns(AreaOf(c)')]_vars

\* a successful add-patterns step after a call of classify_keigo
IsAddStep == last_call' = last_call /\ message' = "apply_success"

\* the claim for one text: its results before and after, and the patterns
\* added to each category
CountsAddUp(t, before, after, added) ==
  \A c \in Categories :
    /\ CntOf(after, c) = CntOf(before, c) + Len(_hits(added[c], t.v))
    /\ IsPrefix(HitsOf(before, c), HitsOf(after, c))

(***************************************************************************)
(* C9.  As claimed: for every text and category, when patterns are         *)
(* appended to the category the hit count of the text after the addition   *)
(* is the count before plus the number of occurrences the new patterns     *)
(* find in the text, and the hits before are a prefix of the hits after.   *)
(***************************************************************************)
C9_CountGrowsByOccurrences ==
  [][(IsAddStep /\ last_call # <<>> /\ last_call[1].text.t = "str") =>
       \A before \in { classify_keigo(last_call[1].text) } :
         \A after \in { Classify(RESPECT_RE', HUMBLE_RE', POLITE_RE',
                                 BEAUTIFIER_RE', last_call[1].text) } :
           CountsAddUp(last_call[1].text, before, after,
                       [c \in Categories |-> GoodPatterns(AreaOf(c)')])]_vars

\* the same, with the blank-text short-circuit taken into account
CountsAddUpUnlessBlank(t, before, after, added) ==
  \A c \in Categories :
    /\ CntOf(after, c) >= CntOf(before, c)
    /\ IsPrefix(HitsOf(before, c), HitsOf(after, c))
    /\ IF IsBlankText(t)
       THEN CntOf(before, c) = 0 /\ CntOf(after, c) = 0
       ELSE CntOf(after, c) = CntOf(before, c) + Len(_hits(added[c], t.v))

(***************************************************************************)
(* C9, amended: the count never decreases and the hits before are a prefix *)
(* of the hits after; for a text with a character that is not white space  *)
(* the count after is the count before plus the occurrences the new        *)
(* patterns find in it, and for an empty or white-space text the count is  *)
(* 0 before and after.                                                     *)
(***************************************************************************)
C9_CountGrowsUnlessBlank ==
  [][(IsAddStep /\ last_call # <<>> /\ last_call[1].text.t = "str") =>
       \A before \in { classify_keigo(last_call[1].text) } :
         \A after \in { Classify(RESPECT_RE', HUMBLE_RE', POLITE_RE',
                                 BEAUTIFIER_RE', last_call[1].text) } :
           CountsAddUpUnlessBlank(
             last_call[1].text, before, after,
             [c \in Categories |-> GoodPatterns(AreaOf(c)')])]_vars

\* です。 was classified and has two polite hits since (で)(す) was added
C9_Witness ==
  /\ last_call # <<>>
  /\ last_call[1].text = Str(T_desu)
  /\ last_call[1].res.polite_cnt = 1
  /\ message = "apply_success"
  /\ extra_polite = E_two
  /\ classify_keigo(Str(T_desu)).polite_cnt = 2

====
